---------------------------- MODULE Spec2Model ----------------------------
(***************************************************************************)
(* Pub/sub topic services of zato.server.service.internal.pubsub.topic:    *)
(* Clear (durable purge under the per-topic publish lock),                 *)
(* GetInRAMMessageList (drain of the in-RAM backlog by sub_key),           *)
(* GetNonGDDepth and CollectNonGDDepth (cluster-wide non-GD depth tally).  *)
(***************************************************************************)
EXTENDS Integers, Sequences, FiniteSets, TLC

(***************************************************************************)
(* Bounds of the model.                                                    *)
(***************************************************************************)
\* Number of durable publications (message rows) the publish path may make.
MaxPub == 2
\* Number of non-GD messages the publish path may put in the in-RAM backlog.
MaxInsert == 2
\* Largest non-GD depth a process starts with when depths are collected.
MaxDepth == 2

(***************************************************************************)
(* The ODB: clusters and the pubsub_topic table (cluster_id, id, name).    *)
(***************************************************************************)
Clusters == {1, 2}
TopicIds == {1, 2}
TopicTable ==
    { [cluster_id |-> 1, id |-> 1, name |-> "orders"],
      [cluster_id |-> 1, id |-> 2, name |-> "billing"],
      [cluster_id |-> 2, id |-> 2, name |-> "orders"] }
TopicNames == { t.name : t \in TopicTable }

\* Threads of the server that run the services.
ClearProcs == {"c1"}
PubProcs   == {"p1", "p2"}

RetProcs   == {"r1", "r2"}

None == "none"

(***************************************************************************)
(* Servers of the cluster and their worker processes; Local is the process *)
(* that runs the services below (self.server, self.pubsub).                *)
(***************************************************************************)
Servers == {"A", "B"}
PidsOf(server_name) == IF server_name = "A" THEN {1, 2} ELSE {1}
Procs == { <<sv, pid>> : sv \in Servers, pid \in {1, 2} } \ { <<"B", 2>> }
Local == <<"A", 1>>
LocalCluster == 1

\* Subscriptions in the ODB: sub_key -> the topic it is subscribed to.
\* "sk4" is a sub_key without a subscription.
SubKeys == {"sk1", "sk2", "sk3", "sk4"}
\* The subscriptions with "sk1" subscribed to both topics.
SubscriptionsShared ==
    { [cluster_id |-> 1, topic_id |-> 1, sub_key |-> "sk1"],
      [cluster_id |-> 1, topic_id |-> 2, sub_key |-> "sk1"],
      [cluster_id |-> 1, topic_id |-> 1, sub_key |-> "sk2"],
      [cluster_id |-> 1, topic_id |-> 2, sub_key |-> "sk3"] }

Subscriptions ==
    { [cluster_id |-> 1, topic_id |-> 1, sub_key |-> "sk1"],
      [cluster_id |-> 1, topic_id |-> 1, sub_key |-> "sk2"],
      [cluster_id |-> 1, topic_id |-> 2, sub_key |-> "sk3"] }
\* The sub_key_list inputs the requests are drawn from: one key, two keys of
\* one topic, keys of two topics, a key without subscription beside one with.
SubKeyLists ==
    { {"sk1"}, {"sk1", "sk2"}, {"sk2", "sk3"}, {"sk3", "sk4"}, {"sk4"} }
MsgIds == {"m1", "m2"}
\* The topic names depth is asked for: a topic of the cluster, and a name no
\* process knows.
AskedNames == {"orders", "nosuch"}
Serials == 1..MaxInsert

VARIABLES
    gd_messages,     \* committed PubSubMessage rows: <<cluster_id, topic_id, msg>>
    enq_messages,    \* committed PubSubEndpointEnqueuedMessage rows, same shape
    locks,           \* lock name -> holding thread, or None
    clear,           \* ClearProcs -> state of that thread's Clear.handle
    pub,             \* PubProcs -> state of that thread's publication
    n_pub            \* publications made so far

VARIABLES
    backlog,         \* Procs -> topic_id -> sub_key -> msg_id -> message (0: none)
    counter,         \* Procs -> topic_id -> the running depth counter of the backlog
    n_ins,           \* messages inserted so far; a message's data is its serial
    ret,             \* RetProcs -> state of that thread's GetInRAMMessageList.handle
    delivered,       \* history: serial -> how many backlog retrievals returned it
    hist             \* history of the caller's request in progress (see SpecRepeat)

VARIABLES
    coll,            \* state of the thread running CollectNonGDDepth.handle
    srv,             \* Servers -> "idle", or "asked" while it owes a reply
    inbox            \* Servers -> the reply received from it, or NoReply

clearVars == <<gd_messages, enq_messages, locks, clear, pub, n_pub>>
backlogVars == <<backlog, counter, n_ins, ret, delivered, hist>>
depthVars == <<coll, srv, inbox>>
vars == <<clearVars, backlogVars, depthVars>>

(***************************************************************************)
(* Rows of one topic of one cluster: the two filter() calls of each query. *)
(***************************************************************************)
RowsOf(table, cluster_id, topic_id) ==
    { r \in table : r[1] = cluster_id /\ r[2] = topic_id }

\* The topic query with the filter on cluster_id left out.
TopicQueryAnyCluster(cluster_id, id) ==
    { t \in TopicTable : t.id = id }

\* session.query(PubSubTopic).filter(cluster_id).filter(id): the matching rows.
TopicQuery(cluster_id, id) ==
    { t \in TopicTable : t.cluster_id = cluster_id /\ t.id = id }

(***************************************************************************)
(* The lock Clear takes: 'zato.pubsub.publish.%s' % topic.name             *)
(***************************************************************************)
ClearLockNameOther(name) == "zato.pubsub.clear." \o name

ClearLockName(name) == "zato.pubsub.publish." \o name

\* The lock the publish path takes for a topic of that name.
PublishLockName(name) == "zato.pubsub.publish." \o name

LockNames ==
    { ClearLockName(n) : n \in TopicNames } \cup { PublishLockName(n) : n \in TopicNames }
    \cup { ClearLockNameOther(n) : n \in TopicNames }

\* self.lock(name): a named, exclusive lock; acquisition blocks while it is held.
LockFree(name) == locks[name] = None
LockAcquire(name, p) == [locks EXCEPT ![name] = p]
LockRelease(name, p) == IF locks[name] = p THEN [locks EXCEPT ![name] = None] ELSE locks

(***************************************************************************)
(* Clear.handle                                                            *)
(***************************************************************************)
ClearIdle ==
    [pc |-> "idle", cluster_id |-> 0, id |-> 0, name |-> None,
     del_messages |-> {}, del_enq |-> {}, exc |-> None, result |-> None,
     \* history of the call, read by the properties only
     pre_messages |-> {}, pre_enq |-> {}, removed |-> {}, discarded |-> {},
     steps |-> <<>>, again |-> FALSE]

\* with closing(self.odb.session()) as session: topic = session.query(..).one()
\* one() raises unless exactly one row matches; the exception leaves handle
\* through closing(), before any lock is taken.
ClearBegin(p, cluster_id, id) ==
    /\ clear[p].pc = "idle"
    /\ LET found == TopicQuery(cluster_id, id) IN
       clear' = [clear EXCEPT ![p] =
           IF Cardinality(found) = 1
           THEN [ClearIdle EXCEPT !.pc = "resolved", !.cluster_id = cluster_id, !.id = id,
                                  !.name = (CHOOSE t \in found : TRUE).name]
           ELSE [ClearIdle EXCEPT !.pc = "closing", !.cluster_id = cluster_id, !.id = id,
                                  !.exc = "NotFound"]]
    /\ UNCHANGED <<gd_messages, enq_messages, locks, pub, n_pub>>
    /\ UNCHANGED <<backlogVars, depthVars>>

\* with self.lock('zato.pubsub.publish.%s' % topic.name): entry blocks until free
ClearLockEnter(p) ==
    /\ clear[p].pc = "resolved"
    /\ LockFree(ClearLockName(clear[p].name))
    /\ locks' = LockAcquire(ClearLockName(clear[p].name), p)
    /\ clear' = [clear EXCEPT ![p].pc = "locked",
                              ![p].steps = Append(clear[p].steps, "lock_acquired"),
                              ![p].pre_messages = RowsOf(gd_messages, clear[p].cluster_id, clear[p].id),
                              ![p].pre_enq = RowsOf(enq_messages, clear[p].cluster_id, clear[p].id)]
    /\ UNCHANGED <<gd_messages, enq_messages, pub, n_pub>>
    /\ UNCHANGED <<backlogVars, depthVars>>

\* The message query with the filter on cluster_id left out.
MessagesQueryAnyCluster(cluster_id, id) == { r \in gd_messages : r[2] = id }

\* session.query(PubSubMessage).filter(cluster_id == ..).filter(topic_id == ..)
MessagesQuery(cluster_id, id) == RowsOf(gd_messages, cluster_id, id)

\* The enqueued-message filter with its two columns compared to the wrong inputs.
EnqueuedQuerySwapped(cluster_id, id) == RowsOf(enq_messages, id, cluster_id)

\* session.query(PubSubEndpointEnqueuedMessage).filter(cluster_id == ..).filter(topic_id == ..)
EnqueuedQuery(cluster_id, id) == RowsOf(enq_messages, cluster_id, id)

\* A delete() that insists on a row to delete, as one() insists on a row.
DeleteRaisesOnNone(rows) == rows = {}

\* query.delete() is a bulk delete: matching no row, it deletes nothing and
\* does not raise.
DeleteRaises(rows) == FALSE

\* Remove all messages: query.delete()
\* The rows are deleted in the session's transaction, not yet in the committed table.
ClearDeleteMessages(p) ==
    /\ clear[p].pc = "locked"
    /\ clear' = IF DeleteRaises(MessagesQuery(clear[p].cluster_id, clear[p].id))
                THEN [clear EXCEPT ![p].pc = "raising", ![p].exc = "NoResultFound"]
                ELSE [clear EXCEPT ![p].pc = "messages_deleted",
                              ![p].steps = Append(clear[p].steps, "messages_deleted"),
                              ![p].del_messages = MessagesQuery(clear[p].cluster_id, clear[p].id)]
    /\ UNCHANGED <<gd_messages, enq_messages, locks, pub, n_pub>>
    /\ UNCHANGED <<backlogVars, depthVars>>

\* The second delete as the last statement of the with-block of the lock,
\* commit() standing after the block: the lock is released before the commit.
ClearDeleteEnqueuedThenExit(p) ==
    /\ clear[p].pc = "messages_deleted"
    /\ clear' = [clear EXCEPT ![p].pc = "enqueued_deleted",
                              ![p].steps = clear[p].steps \o <<"enqueued_deleted", "lock_released">>,
                              ![p].del_enq = EnqueuedQuery(clear[p].cluster_id, clear[p].id)]
    /\ locks' = LockRelease(ClearLockName(clear[p].name), p)
    /\ UNCHANGED <<gd_messages, enq_messages, pub, n_pub>>
    /\ UNCHANGED <<backlogVars, depthVars>>

\* Remove all references to topic messages from target queues: query.delete()
ClearDeleteEnqueued(p) ==
    /\ clear[p].pc = "messages_deleted"
    /\ clear' = IF DeleteRaises(EnqueuedQuery(clear[p].cluster_id, clear[p].id))
                THEN [clear EXCEPT ![p].pc = "raising", ![p].exc = "NoResultFound"]
                ELSE [clear EXCEPT ![p].pc = "enqueued_deleted",
                              ![p].steps = Append(clear[p].steps, "enqueued_deleted"),
                              ![p].del_enq = EnqueuedQuery(clear[p].cluster_id, clear[p].id)]
    /\ UNCHANGED <<gd_messages, enq_messages, locks, pub, n_pub>>
    /\ UNCHANGED <<backlogVars, depthVars>>

\* The commit, had Clear also dropped the topic's messages from the in-RAM
\* backlog of every process.
ClearCommitEvicts(p) ==
    /\ clear[p].pc = "enqueued_deleted"
    /\ gd_messages' = gd_messages \ clear[p].del_messages
    /\ enq_messages' = enq_messages \ clear[p].del_enq
    /\ clear' = [clear EXCEPT ![p].pc = "committed",
                              ![p].steps = Append(clear[p].steps, "committed"),
                              ![p].removed = (gd_messages \cap clear[p].del_messages)
                                             \cup (enq_messages \cap clear[p].del_enq),
                              ![p].del_messages = {}, ![p].del_enq = {}]
    /\ backlog' = [pr \in Procs |->
            [backlog[pr] EXCEPT ![clear[p].id] = [k \in SubKeys |-> [m \in MsgIds |-> 0]]]]
    /\ UNCHANGED <<locks, pub, n_pub>>
    /\ UNCHANGED <<counter, n_ins, ret, delivered, hist>>
    /\ UNCHANGED depthVars

\* session.commit(): the transaction's deletes reach the committed tables at once.
ClearCommit(p) ==
    /\ clear[p].pc = "enqueued_deleted"
    /\ gd_messages' = gd_messages \ clear[p].del_messages
    /\ enq_messages' = enq_messages \ clear[p].del_enq
    /\ clear' = [clear EXCEPT ![p].pc = "committed",
                              ![p].steps = Append(clear[p].steps, "committed"),
                              ![p].removed = (gd_messages \cap clear[p].del_messages)
                                             \cup (enq_messages \cap clear[p].del_enq),
                              ![p].del_messages = {}, ![p].del_enq = {}]
    /\ UNCHANGED <<locks, pub, n_pub>>
    /\ UNCHANGED <<backlogVars, depthVars>>

\* Either delete() or commit() raises (the durable store fails): the exception
\* leaves the with-block of the lock with the transaction still open.
ClearRaise(p) ==
    /\ clear[p].pc \in {"locked", "messages_deleted", "enqueued_deleted"}
    /\ clear' = [clear EXCEPT ![p].pc = "raising", ![p].exc = "DurableStoreFailure"]
    /\ UNCHANGED <<gd_messages, enq_messages, locks, pub, n_pub>>
    /\ UNCHANGED <<backlogVars, depthVars>>

\* What leaving the with-block of line 128 does to the lock when an exception
\* is in flight, had the lock been taken without the with statement.
ClearLockExitOnErrorKept(p) == locks

\* Leaving the with-block on an exception: the with statement calls the lock's
\* exit, which releases it.
ClearLockExitOnError(p) == LockRelease(ClearLockName(clear[p].name), p)

\* Leaving 'with self.lock(..)', normally after commit() or on an exception.
ClearLockExit(p) ==
    /\ clear[p].pc \in {"committed", "raising"}
    /\ locks' = IF clear[p].pc = "raising"
                THEN ClearLockExitOnError(p)
                ELSE LockRelease(ClearLockName(clear[p].name), p)
    /\ clear' = [clear EXCEPT ![p].pc = "closing",
                              ![p].steps = Append(clear[p].steps, "lock_released")]
    /\ UNCHANGED <<gd_messages, enq_messages, pub, n_pub>>
    /\ UNCHANGED <<backlogVars, depthVars>>

\* What closing(session) would do if close() flushed and committed the
\* open transaction instead of discarding it.
SessionCloseCommits(table, deleted) == table \ deleted

\* closing(session): session.close() ends the transaction; what was deleted and
\* not committed is rolled back, the committed table stays as it is.
SessionClose(table, deleted) == table

\* Leaving 'with closing(self.odb.session())', then handle returns or raises.
ClearSessionClose(p) ==
    /\ clear[p].pc = "closing"
    /\ gd_messages' = SessionClose(gd_messages, clear[p].del_messages)
    /\ enq_messages' = SessionClose(enq_messages, clear[p].del_enq)
    /\ clear' = [clear EXCEPT ![p].pc = "done",
                              ![p].removed = clear[p].removed
                                  \cup (gd_messages \ gd_messages')
                                  \cup (enq_messages \ enq_messages'),
                              ![p].discarded = (clear[p].del_messages \cap gd_messages')
                                  \cup (clear[p].del_enq \cap enq_messages'),
                              ![p].del_messages = {}, ![p].del_enq = {},
                              ![p].result = IF clear[p].exc = None THEN "ok" ELSE clear[p].exc]
    /\ UNCHANGED <<locks, pub, n_pub>>
    /\ UNCHANGED <<backlogVars, depthVars>>

\* The caller has the response or the exception; the thread serves the next request.
ClearReturn(p) ==
    /\ clear[p].pc = "done"
    /\ clear' = [clear EXCEPT ![p] = ClearIdle]
    /\ UNCHANGED <<gd_messages, enq_messages, locks, pub, n_pub>>
    /\ UNCHANGED <<backlogVars, depthVars>>

\* The caller has the response and at once sends the same request again.
\* again records that the call before succeeded and removed rows.
ClearAgain(p) ==
    /\ clear[p].pc = "done"
    /\ LET found == TopicQuery(clear[p].cluster_id, clear[p].id) IN
       clear' = [clear EXCEPT ![p] =
           IF Cardinality(found) = 1
           THEN [ClearIdle EXCEPT !.pc = "resolved", !.cluster_id = clear[p].cluster_id,
                                  !.id = clear[p].id,
                                  !.name = (CHOOSE t \in found : TRUE).name,
                                  !.again = (clear[p].result = "ok" /\ clear[p].removed # {})]
           ELSE [ClearIdle EXCEPT !.pc = "closing", !.cluster_id = clear[p].cluster_id,
                                  !.id = clear[p].id, !.exc = "NotFound"]]
    /\ UNCHANGED <<gd_messages, enq_messages, locks, pub, n_pub>>
    /\ UNCHANGED <<backlogVars, depthVars>>

(***************************************************************************)
(* The publish path, as far as Clear meets it: it stores a GD message and  *)
(* its enqueued reference while holding the topic's publish lock.          *)
(***************************************************************************)
PubIdle == [pc |-> "idle", cluster_id |-> 0, id |-> 0, name |-> None]

PublishBegin(q, t) ==
    /\ pub[q].pc = "idle"
    /\ n_pub < MaxPub
    /\ pub' = [pub EXCEPT ![q] = [pc |-> "waiting", cluster_id |-> t.cluster_id,
                                  id |-> t.id, name |-> t.name]]
    /\ UNCHANGED <<gd_messages, enq_messages, locks, clear, n_pub>>
    /\ UNCHANGED <<backlogVars, depthVars>>

PublishLockEnter(q) ==
    /\ pub[q].pc = "waiting"
    /\ LockFree(PublishLockName(pub[q].name))
    /\ locks' = LockAcquire(PublishLockName(pub[q].name), q)
    /\ pub' = [pub EXCEPT ![q].pc = "locked"]
    /\ UNCHANGED <<gd_messages, enq_messages, clear, n_pub>>
    /\ UNCHANGED <<backlogVars, depthVars>>

\* The message and its reference are inserted and committed under the lock.
PublishStore(q) ==
    /\ pub[q].pc = "locked"
    /\ n_pub' = n_pub + 1
    /\ gd_messages' = gd_messages \cup {<<pub[q].cluster_id, pub[q].id, n_pub'>>}
    /\ enq_messages' = enq_messages \cup {<<pub[q].cluster_id, pub[q].id, n_pub'>>}
    /\ pub' = [pub EXCEPT ![q].pc = "stored"]
    /\ UNCHANGED <<locks, clear>>
    /\ UNCHANGED <<backlogVars, depthVars>>

PublishLockExit(q) ==
    /\ pub[q].pc = "stored"
    /\ locks' = LockRelease(PublishLockName(pub[q].name), q)
    /\ pub' = [pub EXCEPT ![q] = PubIdle]
    /\ UNCHANGED <<gd_messages, enq_messages, clear, n_pub>>
    /\ UNCHANGED <<backlogVars, depthVars>>

(***************************************************************************)
(* The in-RAM delivery backlog of a process (self.pubsub.delivery_backlog) *)
(***************************************************************************)
NoMessages == [m \in MsgIds |-> 0]
EmptyBacklog == [t \in TopicIds |-> [k \in SubKeys |-> NoMessages]]

\* The messages of a msg_id -> message mapping, as <<sub_key, msg_id, serial>>.
MessagesOf(k, msgs) == { <<k, m, msgs[m]>> : m \in { x \in MsgIds : msgs[x] # 0 } }

\* insert(topic_id, sub_key, msg_id, message): stores the message; a msg_id
\* already there is overwritten.
BacklogInsert(b, topic_id, sub_key, msg_id, message) ==
    [b EXCEPT ![topic_id][sub_key][msg_id] = message]

\* retrieve_messages_by_sub_keys(topic_id, sub_keys), what it returns:
\* sub_key -> msg_id -> message, for each sub_key asked for.
BacklogRetrieved(b, topic_id, sub_keys) ==
    [k \in sub_keys |-> b[topic_id][k]]

\* retrieve_messages_by_sub_keys(topic_id, sub_keys), what it leaves: the
\* messages returned are deleted, in the same locked step.
BacklogAfterRetrieve(b, topic_id, sub_keys) ==
    [b EXCEPT ![topic_id] =
        [k \in SubKeys |-> IF k \in sub_keys THEN NoMessages ELSE b[topic_id][k]]]

\* The messages a backlog holds under a topic for the given sub_keys, as
\* <<sub_key, msg_id>>.
BacklogCells(b, topic_id, sub_keys) ==
    { c \in sub_keys \X MsgIds : b[topic_id][c[1]][c[2]] # 0 }

\* The counter stepped on every insert, an overwriting one as well.
CounterAfterInsertAlways(n, b, topic_id, sub_key, msg_id) == n + 1

\* The running counter of a topic after insert: one more message is stored,
\* unless the insert overwrote the message of the same msg_id.
CounterAfterInsert(n, b, topic_id, sub_key, msg_id) ==
    IF b[topic_id][sub_key][msg_id] = 0 THEN n + 1 ELSE n

\* The running counter of a topic after drain: less the messages removed.
CounterAfterRetrieve(n, b, topic_id, sub_keys) ==
    n - Cardinality(BacklogCells(b, topic_id, sub_keys))

\* The publish path stores a non-GD message for a subscriber of the topic in
\* the backlog of the process that received the publication.
Insert(pr, sub, m) ==
    /\ n_ins < MaxInsert
    /\ n_ins' = n_ins + 1
    /\ backlog' = [backlog EXCEPT ![pr] =
            BacklogInsert(backlog[pr], sub.topic_id, sub.sub_key, m, n_ins')]
    /\ counter' = [counter EXCEPT ![pr][sub.topic_id] =
            CounterAfterInsert(counter[pr][sub.topic_id], backlog[pr],
                               sub.topic_id, sub.sub_key, m)]
    /\ UNCHANGED <<ret, delivered>>
    /\ UNCHANGED <<clearVars, depthVars>>

(***************************************************************************)
(* GetInRAMMessageList.handle                                              *)
(***************************************************************************)
\* get_topics_by_sub_keys(session, cluster_id, sub_key_list): the
\* (topic_id, sub_key) rows of the subscriptions whose sub_key is in the list.
get_topics_by_sub_keys(cluster_id, sub_key_list) ==
    { <<s.topic_id, s.sub_key>> :
        s \in { x \in Subscriptions : x.cluster_id = cluster_id /\ x.sub_key \in sub_key_list } }

\* The sub_keys of the list that resolve to no topic of the cluster.
Unresolved(cluster_id, sub_key_list) ==
    { k \in sub_key_list :
        ~\E s \in Subscriptions : s.cluster_id = cluster_id /\ s.sub_key = k }

\* The lookup fails with NotFound when a sub_key of the list does not resolve.
LookupRaises(cluster_id, sub_key_list) == Unresolved(cluster_id, sub_key_list) # {}

\* The grouping with topic_sub_keys[topic_id] = [sub_key] in place of
\* setdefault and append: the last sub_key of a topic replaces the others.
TopicSubKeysLast(rows) ==
    [t \in { r[1] : r \in rows } |-> { CHOOSE k \in { r[2] : r \in { x \in rows : x[1] = t } } : TRUE }]

\* for topic_id, sub_key in ..: topic_sub_keys.setdefault(topic_id, []).append(sub_key)
TopicSubKeys(rows) ==
    [t \in { r[1] : r \in rows } |-> { r[2] : r \in { x \in rows : x[1] = t } }]

\* dict.update: the keys of data replace those of out.
DictUpdate(out, data) ==
    [k \in (DOMAIN out) \cup (DOMAIN data) |-> IF k \in DOMAIN data THEN data[k] ELSE out[k]]

\* All messages of a sub_key -> msg_id -> message mapping.
AllMessages(out) == UNION { MessagesOf(k, out[k]) : k \in DOMAIN out }

\* The messages the local backlog holds under the given sub_keys, in any topic.
StoredUnder(sub_keys) ==
    UNION { MessagesOf(k, backlog[Local][t][k]) : t \in TopicIds, k \in sub_keys }

RetIdle ==
    [pc |-> "idle", sub_key_list |-> {}, topic_sub_keys |-> <<>>, todo |-> {}, out |-> <<>>,
     exc |-> None]

\* The block of lines 211-214 inside try/except: a failed lookup is
\* swallowed and handle goes on with the topics grouped so far, none.
HandleBeginCatches(sub_key_list) ==
    LET tsk == IF LookupRaises(LocalCluster, sub_key_list) THEN <<>>
               ELSE TopicSubKeys(get_topics_by_sub_keys(LocalCluster, sub_key_list)) IN
    [pc |-> "topics", sub_key_list |-> sub_key_list,
     topic_sub_keys |-> tsk, todo |-> DOMAIN tsk, out |-> <<>>, exc |-> None]

\* out = {}; topic_sub_keys = {}; the ODB query and the grouping loop.  An
\* exception of the lookup is not caught: it leaves the with-block and
\* handle, before the loop of line 216 and with nothing taken from the backlog.
HandleBegin(sub_key_list) ==
    IF LookupRaises(LocalCluster, sub_key_list)
    THEN [pc |-> "done", sub_key_list |-> sub_key_list,
          topic_sub_keys |-> <<>>, todo |-> {}, out |-> <<>>, exc |-> "NotFound"]
    ELSE LET tsk == TopicSubKeys(get_topics_by_sub_keys(LocalCluster, sub_key_list)) IN
         [pc |-> "topics", sub_key_list |-> sub_key_list,
          topic_sub_keys |-> tsk, todo |-> DOMAIN tsk, out |-> <<>>, exc |-> None]

\* A request arrives with its sub_key_list.
RetrieveBegin(p, sub_key_list) ==
    /\ ret[p].pc = "idle"
    /\ ret' = [ret EXCEPT ![p] = HandleBegin(sub_key_list)]
    /\ UNCHANGED <<backlog, counter, n_ins, delivered>>
    /\ UNCHANGED <<clearVars, depthVars>>

\* What line 219 would leave in the backlog if it drained the topic as a
\* whole, its sub_keys argument not being passed on.
HandleBacklogCallWholeTopic(b, topic_id, sub_keys) ==
    BacklogAfterRetrieve(b, topic_id, SubKeys)

\* What line 219 would leave in the backlog if it called a method that reads
\* the messages without deleting them.
HandleBacklogCallKeeps(b, topic_id, sub_keys) == b

\* data = self.pubsub.delivery_backlog.retrieve_messages_by_sub_keys(topic_id, sub_keys):
\* the backlog after the call.
HandleBacklogCall(b, topic_id, sub_keys) == BacklogAfterRetrieve(b, topic_id, sub_keys)

\* out = data, in place of out.update(data)
HandleOutReplaced(out, data) == data

\* out.update(data)
HandleOut(out, data) == DictUpdate(out, data)

\* Count one more return of each serial in msgs (the count stops at 2).
Delivered(msgs) ==
    [s \in Serials |-> IF s \in { x[3] : x \in msgs }
                       THEN (IF delivered[s] < 2 THEN delivered[s] + 1 ELSE 2)
                       ELSE delivered[s]]

\* One turn of 'for topic_id, sub_keys in topic_sub_keys.items()'.
RetrieveTopic(p, topic_id) ==
    /\ ret[p].pc = "topics"
    /\ topic_id \in ret[p].todo
    /\ LET sub_keys == ret[p].topic_sub_keys[topic_id]
           data == BacklogRetrieved(backlog[Local], topic_id, sub_keys)
       IN /\ backlog' = [backlog EXCEPT ![Local] =
                            HandleBacklogCall(backlog[Local], topic_id, sub_keys)]
          /\ counter' = [counter EXCEPT ![Local][topic_id] =
                            CounterAfterRetrieve(counter[Local][topic_id], backlog[Local],
                                                 topic_id, sub_keys)]
          /\ delivered' = Delivered(AllMessages(data))
          /\ ret' = [ret EXCEPT ![p].out = HandleOut(ret[p].out, data),
                                ![p].todo = ret[p].todo \ {topic_id}]
    /\ UNCHANGED n_ins
    /\ UNCHANGED <<clearVars, depthVars>>

\* self.response.payload.messages = out
RetrieveReturn(p) ==
    /\ ret[p].pc = "topics"
    /\ ret[p].todo = {}
    /\ ret' = [ret EXCEPT ![p].pc = "done"]
    /\ UNCHANGED <<backlog, counter, n_ins, delivered>>
    /\ UNCHANGED <<clearVars, depthVars>>

\* The caller has the response; the thread serves the next request.
RetrieveNext(p) ==
    /\ ret[p].pc = "done"
    /\ ret' = [ret EXCEPT ![p] = RetIdle]
    /\ UNCHANGED <<backlog, counter, n_ins, delivered>>
    /\ UNCHANGED <<clearVars, depthVars>>

\* The caller has the response and at once sends the same request again.
RetrieveAgain(p) ==
    /\ ret[p].pc = "done"
    /\ ret' = [ret EXCEPT ![p] = HandleBegin(ret[p].sub_key_list)]
    /\ UNCHANGED <<backlog, counter, n_ins, delivered>>
    /\ UNCHANGED <<clearVars, depthVars>>

(***************************************************************************)
(* GetNonGDDepth.handle                                                    *)
(***************************************************************************)
\* Number of messages a backlog holds for a topic, over all its sub_keys.
BacklogDepth(b, topic_id) ==
    Cardinality({ <<k, m>> \in SubKeys \X MsgIds : b[topic_id][k][m] # 0 })

\* self.pubsub.get_non_gd_topic_depth(topic_name) in process pr: the depth
\* of the topic of that name, read from the running counter of the backlog;
\* zero when the process knows no such topic.
get_non_gd_topic_depth(pr, topic_name) ==
    LET found == { t \in TopicTable : t.cluster_id = LocalCluster /\ t.name = topic_name } IN
    IF found = {} THEN 0 ELSE counter[pr][(CHOOSE t \in found : TRUE).id]

\* The handler setting payload.depth only when the depth is not zero.
GetNonGDDepthIfAny(pr, topic_name) ==
    IF get_non_gd_topic_depth(pr, topic_name) = 0
    THEN [response |-> [topic_name |-> topic_name]]
    ELSE [response |-> [depth |-> get_non_gd_topic_depth(pr, topic_name)]]

\* self.response.payload.depth = ..: the response of the service in process pr.
GetNonGDDepth(pr, topic_name) ==
    [response |-> [depth |-> get_non_gd_topic_depth(pr, topic_name)]]

(***************************************************************************)
(* self.servers.invoke_all: the request goes to every server, each invokes *)
(* the service in each of its processes and replies                        *)
(*   is_ok, server_data: pid -> (is_ok, pid_data)                          *)
(* A server or process that failed has is_ok false and no data.            *)
(***************************************************************************)
FailedEntry == [is_ok |-> FALSE]
NoReply == [no_reply |-> TRUE]

ServerReplyOf(sv, topic_name, server_ok, pid_ok) ==
    IF server_ok
    THEN [is_ok |-> TRUE,
          server_data |-> [pid \in PidsOf(sv) |->
                IF pid_ok[pid]
                THEN [is_ok |-> TRUE, pid_data |-> GetNonGDDepth(<<sv, pid>>, topic_name)]
                ELSE FailedEntry]]
    ELSE FailedEntry

\* What invoke_all returns: (is_ok, data), data holding the reply of each
\* server that replied and a failed entry for each that did not.
InvokeAllResult ==
    <<TRUE, [sv \in Servers |-> IF inbox[sv] # NoReply THEN inbox[sv] ELSE FailedEntry]>>

(***************************************************************************)
(* CollectNonGDDepth.handle                                                *)
(***************************************************************************)
CollIdle ==
    [pc |-> "idle", topic_name |-> None, all_depth |-> <<>>, raised |-> FALSE, total |-> 0,
     \* history, read by the properties only
     dir_failed |-> FALSE, timed_out |-> FALSE, in_time |-> {}, lock_at_begin |-> None,
     n_ins_at_begin |-> 0, again |-> FALSE, prev_total |-> 0, prev_ok |-> {}]

\* A total, or the exception raised while computing it.
Ok(n) == [raised |-> FALSE, total |-> n]
Raised == [raised |-> TRUE, total |-> 0]
Plus(a, b) == IF a.raised \/ b.raised THEN Raised ELSE Ok(a.total + b.total)

\* d[key]: a KeyError when the key is missing
HasKey(d, key) == key \in DOMAIN d

\* if server_data[pid]['is_ok']: total += pid_data['response']['depth']
PidTotal(entry) ==
    IF ~HasKey(entry, "is_ok") THEN Raised
    ELSE IF ~entry.is_ok THEN Ok(0)
    ELSE IF ~HasKey(entry, "pid_data") THEN Raised
    ELSE IF ~HasKey(entry.pid_data.response, "depth") THEN Raised
    ELSE Ok(entry.pid_data.response.depth)

\* for pid in server_data: ..
RECURSIVE PidsTotal(_, _)
PidsTotal(server_data, pids) ==
    IF pids = {} THEN Ok(0)
    ELSE LET pid == CHOOSE x \in pids : TRUE IN
         Plus(PidTotal(server_data[pid]), PidsTotal(server_data, pids \ {pid}))

\* The loop body with server_data read before is_ok is looked at.
ServerTotalUnchecked(data, server_name) ==
    IF ~HasKey(data[server_name], "server_data") THEN Raised
    ELSE PidsTotal(data[server_name].server_data, DOMAIN data[server_name].server_data)

\* The loop body with the inner loop run over the data of every server that
\* is ok, not of this one alone.
ServerTotalOfAll(data, server_name) ==
    LET RECURSIVE Over(_)
        Over(names) ==
            IF names = {} THEN Ok(0)
            ELSE LET n == CHOOSE x \in names : TRUE IN
                 Plus(IF data[n].is_ok
                      THEN PidsTotal(data[n].server_data, DOMAIN data[n].server_data)
                      ELSE Ok(0),
                      Over(names \ {n}))
    IN IF data[server_name].is_ok THEN Over(DOMAIN data) ELSE Ok(0)

\* The loop body with the process's is_ok not looked at.
ServerTotalAnyPid(data, server_name) ==
    IF ~data[server_name].is_ok THEN Ok(0)
    ELSE LET sd == data[server_name].server_data
             RECURSIVE Over(_)
             Over(pids) ==
                 IF pids = {} THEN Ok(0)
                 ELSE LET pid == CHOOSE x \in pids : TRUE IN
                      Plus(IF HasKey(sd[pid], "pid_data")
                           THEN Ok(sd[pid].pid_data.response.depth) ELSE Raised,
                           Over(pids \ {pid}))
         IN Over(DOMAIN sd)

\* if data[server_name]['is_ok']: server_data = ..; for pid in server_data: ..
ServerTotal(data, server_name) ==
    IF ~HasKey(data[server_name], "is_ok") THEN Raised
    ELSE IF ~data[server_name].is_ok THEN Ok(0)
    ELSE IF ~HasKey(data[server_name], "server_data") THEN Raised
    ELSE PidsTotal(data[server_name].server_data, DOMAIN data[server_name].server_data)

\* total = 0; for server_name in data: ..
RECURSIVE ServersTotal(_, _)
ServersTotal(data, names) ==
    IF names = {} THEN Ok(0)
    ELSE LET server_name == CHOOSE x \in names : TRUE IN
         Plus(ServerTotal(data, server_name), ServersTotal(data, names \ {server_name}))

\* The replies as they stand when the loop runs, those that came after
\* invoke_all returned included.
HandleDataLive(all_depth) ==
    [sv \in Servers |-> IF inbox[sv] # NoReply THEN inbox[sv] ELSE FailedEntry]

\* data = all_depth[1]
HandleData(all_depth) == all_depth[2]

\* The thread holding the lock of that name, None if it is free or unused.
LockHolder(name) == IF name \in DOMAIN locks THEN locks[name] ELSE None

\* handle with its body inside 'with self.lock(..)' on the topic's publish
\* lock: it starts only once that lock is free.
CollectBeginLocked(topic_name, dir_ok) ==
    /\ coll.pc = "idle"
    /\ LockHolder(PublishLockName(topic_name)) = None
    /\ IF dir_ok
       THEN /\ coll' = [CollIdle EXCEPT !.pc = "invoking", !.topic_name = topic_name,
                                        !.n_ins_at_begin = n_ins]
            /\ srv' = [sv \in Servers |-> "asked"]
       ELSE /\ coll' = [CollIdle EXCEPT !.pc = "done", !.topic_name = topic_name,
                                        !.raised = TRUE, !.dir_failed = TRUE]
            /\ UNCHANGED srv
    /\ UNCHANGED inbox
    /\ UNCHANGED <<clearVars, backlogVars>>

\* all_depth = self.servers.invoke_all(.., timeout=10): the call is made.  It
\* raises at once if the servers of the cluster cannot be listed.  No lock is
\* taken; lock_at_begin records who held the topic's publish lock then and
\* n_ins_at_begin how many messages had been inserted by then.
CollectBegin(topic_name, dir_ok) ==
    /\ coll.pc = "idle"
    /\ IF dir_ok
       THEN /\ coll' = [CollIdle EXCEPT !.pc = "invoking", !.topic_name = topic_name,
                            !.lock_at_begin = LockHolder(PublishLockName(topic_name)),
                            !.n_ins_at_begin = n_ins]
            /\ srv' = [sv \in Servers |-> "asked"]
       ELSE /\ coll' = [CollIdle EXCEPT !.pc = "done", !.topic_name = topic_name,
                                        !.raised = TRUE, !.dir_failed = TRUE]
            /\ UNCHANGED srv
    /\ UNCHANGED inbox
    /\ UNCHANGED <<clearVars, backlogVars>>

\* A server replies: it failed as a whole, or some of its processes did.
\* The reply is in time if invoke_all is still waiting.
ServerReply(sv, server_ok, pid_ok) ==
    /\ srv[sv] = "asked"
    /\ srv' = [srv EXCEPT ![sv] = "idle"]
    /\ inbox' = [inbox EXCEPT ![sv] = ServerReplyOf(sv, coll.topic_name, server_ok, pid_ok)]
    /\ coll' = IF coll.pc = "invoking"
               THEN [coll EXCEPT !.in_time = coll.in_time \cup {sv}]
               ELSE coll
    /\ UNCHANGED <<clearVars, backlogVars>>

\* invoke_all returns: every server has replied.
InvokeAllComplete ==
    /\ coll.pc = "invoking"
    /\ \A sv \in Servers : inbox[sv] # NoReply
    /\ coll' = [coll EXCEPT !.pc = "reducing", !.all_depth = InvokeAllResult]
    /\ UNCHANGED <<srv, inbox>>
    /\ UNCHANGED <<clearVars, backlogVars>>

\* invoke_all returns: the timeout has passed and some server has not replied.
InvokeAllTimeout ==
    /\ coll.pc = "invoking"
    /\ \E sv \in Servers : inbox[sv] = NoReply
    /\ coll' = [coll EXCEPT !.pc = "reducing", !.all_depth = InvokeAllResult,
                            !.timed_out = TRUE]
    /\ UNCHANGED <<srv, inbox>>
    /\ UNCHANGED <<clearVars, backlogVars>>

\* A collection that empties the backlog of the process it runs in once it
\* has the total.
CollectReduceDrains ==
    /\ coll.pc = "reducing"
    /\ LET data == HandleData(coll.all_depth)
           sum == ServersTotal(data, DOMAIN data)
       IN coll' = [coll EXCEPT !.pc = "done", !.raised = sum.raised, !.total = sum.total]
    /\ backlog' = [backlog EXCEPT ![Local] = EmptyBacklog]
    /\ counter' = [counter EXCEPT ![Local] = [t \in TopicIds |-> 0]]
    /\ UNCHANGED <<srv, inbox>>
    /\ UNCHANGED <<n_ins, ret, delivered, hist>>
    /\ UNCHANGED clearVars

\* total = 0; the loops; self.response.payload.current_depth_non_gd = total
CollectReduce ==
    /\ coll.pc = "reducing"
    /\ LET data == HandleData(coll.all_depth)
           sum == ServersTotal(data, DOMAIN data)
       IN coll' = [coll EXCEPT !.pc = "done", !.raised = sum.raised, !.total = sum.total]
    /\ UNCHANGED <<srv, inbox>>
    /\ UNCHANGED <<clearVars, backlogVars>>

(***************************************************************************)
(* Specification of Clear running beside publications.                     *)
(***************************************************************************)
InitDepthVars ==
    /\ coll = CollIdle
    /\ srv = [sv \in Servers |-> "idle"]
    /\ inbox = [sv \in Servers |-> NoReply]

HistNone ==
    [at_begin |-> {}, again |-> FALSE, quiet |-> TRUE, no_insert |-> TRUE, first |-> {}]

InitBacklogVars ==
    /\ backlog = [pr \in Procs |-> EmptyBacklog]
    /\ counter = [pr \in Procs |-> [t \in TopicIds |-> 0]]
    /\ n_ins = 0
    /\ ret = [p \in RetProcs |-> RetIdle]
    /\ delivered = [s \in Serials |-> 0]
    /\ hist = HistNone

InitClearVars ==
    /\ gd_messages = {}
    /\ enq_messages = {}
    /\ locks = [n \in LockNames |-> None]
    /\ clear = [p \in ClearProcs |-> ClearIdle]
    /\ pub = [q \in PubProcs |-> PubIdle]
    /\ n_pub = 0

InitClear == InitClearVars /\ InitBacklogVars /\ InitDepthVars

NextClear ==
    \/ \E p \in ClearProcs, c \in Clusters, i \in TopicIds : ClearBegin(p, c, i)
    \/ \E p \in ClearProcs : ClearLockEnter(p)
    \/ \E p \in ClearProcs : ClearDeleteMessages(p)
    \/ \E p \in ClearProcs : ClearDeleteEnqueued(p)
    \/ \E p \in ClearProcs : ClearCommit(p)
    \/ \E p \in ClearProcs : ClearRaise(p)
    \/ \E p \in ClearProcs : ClearLockExit(p)
    \/ \E p \in ClearProcs : ClearSessionClose(p)
    \/ \E p \in ClearProcs : ClearReturn(p)
    \/ \E p \in ClearProcs : ClearAgain(p)
    \/ \E q \in PubProcs, t \in TopicTable : PublishBegin(q, t)
    \/ \E q \in PubProcs : PublishLockEnter(q)
    \/ \E q \in PubProcs : PublishStore(q)
    \/ \E q \in PubProcs : PublishLockExit(q)

SpecClear == InitClear /\ [][NextClear]_vars

(***************************************************************************)
(* Specification of the local backlog: insertions beside the requests of   *)
(* two threads running GetInRAMMessageList.                                *)
(***************************************************************************)
InitBacklog == InitClearVars /\ InitBacklogVars /\ InitDepthVars

NextBacklog ==
    \/ \E sub \in Subscriptions, m \in MsgIds : Insert(Local, sub, m) /\ UNCHANGED hist
    \/ \E p \in RetProcs, ks \in SubKeyLists : RetrieveBegin(p, ks) /\ UNCHANGED hist
    \/ \E p \in RetProcs, t \in TopicIds : RetrieveTopic(p, t) /\ UNCHANGED hist
    \/ \E p \in RetProcs : RetrieveReturn(p) /\ UNCHANGED hist
    \/ \E p \in RetProcs : RetrieveNext(p) /\ UNCHANGED hist

SpecBacklog == InitBacklog /\ [][NextBacklog]_vars

(***************************************************************************)
(* Specification of one caller that sends requests one after the other,    *)
(* some of them twice in succession, beside insertions.  hist records, for *)
(* the request in progress: what the backlog held under its sub_keys when  *)
(* it began, whether it repeats the request before it, and whether a       *)
(* message was inserted since (quiet: since this request began; no_insert: *)
(* since the first of the repeated requests began), and what that first    *)
(* request returned.                                                       *)
(***************************************************************************)
Caller == "r1"

NextRepeat ==
    \/ \E sub \in Subscriptions, m \in MsgIds :
          /\ Insert(Local, sub, m)
          /\ hist' = [hist EXCEPT !.quiet = FALSE, !.no_insert = FALSE]
    \/ \E ks \in SubKeyLists :
          /\ RetrieveBegin(Caller, ks)
          /\ hist' = [at_begin |-> StoredUnder(ks), again |-> FALSE,
                      quiet |-> TRUE, no_insert |-> TRUE, first |-> {}]
    \/ \E t \in TopicIds : RetrieveTopic(Caller, t) /\ UNCHANGED hist
    \/ RetrieveReturn(Caller) /\ UNCHANGED hist
    \/ RetrieveNext(Caller) /\ hist' = HistNone
    \/ /\ RetrieveAgain(Caller)
       /\ hist' = [at_begin |-> StoredUnder(ret[Caller].sub_key_list), again |-> TRUE,
                   quiet |-> TRUE, no_insert |-> hist.no_insert,
                   first |-> IF hist.again THEN hist.first ELSE AllMessages(ret[Caller].out)]

SpecRepeat == InitBacklog /\ [][NextRepeat]_vars

\* A thread inside handle keeps running: every step of Clear.handle after its
\* first is taken once it stays possible. Failures of the store are not forced.
ClearStep(p) ==
    \/ ClearLockEnter(p)
    \/ ClearDeleteMessages(p)
    \/ ClearDeleteEnqueued(p)
    \/ ClearCommit(p)
    \/ ClearLockExit(p)
    \/ ClearSessionClose(p)

PublishStep(q) == PublishLockEnter(q) \/ PublishStore(q) \/ PublishLockExit(q)

FairSpecClear ==
    /\ SpecClear
    /\ \A p \in ClearProcs : WF_vars(ClearStep(p))
    /\ \A q \in PubProcs : WF_vars(PublishStep(q))

(***************************************************************************)
(* Properties of Clear.                                                    *)
(***************************************************************************)
ClearInLock(p) ==
    clear[p].pc \in {"locked", "messages_deleted", "enqueued_deleted", "committed", "raising"}

PubInLock(q) == pub[q].pc \in {"locked", "stored"}

SameTopic(p, q) == clear[p].cluster_id = pub[q].cluster_id /\ clear[p].id = pub[q].id

\* C1: Clear and publish on the same topic are mutually exclusive: while a
\* Clear of topic T is anywhere between taking and releasing the lock, no
\* publication to T is inside its own locked section, and what a publication
\* inside its locked section finds of T is never enqueued references whose
\* messages are deleted.
C1_ClearPublishExclusive ==
    /\ \A p \in ClearProcs, q \in PubProcs :
          (ClearInLock(p) /\ SameTopic(p, q)) => ~PubInLock(q)
    /\ \A q \in PubProcs :
          PubInLock(q) =>
              RowsOf(enq_messages, pub[q].cluster_id, pub[q].id)
                  \subseteq RowsOf(gd_messages, pub[q].cluster_id, pub[q].id)

\* A publication to T is blocked while Clear has deleted T's messages and not
\* yet its enqueued references.
C1_Witness ==
    \E p \in ClearProcs, q \in PubProcs :
        /\ clear[p].pc = "messages_deleted"
        /\ clear[p].del_messages # {}
        /\ SameTopic(p, q)
        /\ pub[q].pc = "waiting"
        /\ ~ENABLED PublishLockEnter(q)

\* C2: when Clear has committed (and still holds the lock, so that nothing
\* was published since), the topic has no durable message and no enqueued
\* reference left.
C2_ClearedCountsZero ==
    \A p \in ClearProcs :
        clear[p].pc = "committed" =>
            /\ Cardinality(RowsOf(gd_messages, clear[p].cluster_id, clear[p].id)) = 0
            /\ Cardinality(RowsOf(enq_messages, clear[p].cluster_id, clear[p].id)) = 0

C2_Witness ==
    \E p \in ClearProcs :
        /\ clear[p].pc = "committed"
        /\ clear[p].pre_messages # {}
        /\ clear[p].pre_enq # {}
        /\ gd_messages # {}

\* C3: a Clear whose transaction failed removed no row of either table:
\* while the exception is still inside the lock the topic's rows are those
\* found when the lock was taken, nothing is removed later by closing the
\* session, and the caller gets the failure.
C3_FailedClearChangesNothing ==
    \A p \in ClearProcs :
        clear[p].exc = "DurableStoreFailure" =>
            /\ clear[p].removed = {}
            /\ clear[p].pc = "raising" =>
                  /\ RowsOf(gd_messages, clear[p].cluster_id, clear[p].id) = clear[p].pre_messages
                  /\ RowsOf(enq_messages, clear[p].cluster_id, clear[p].id) = clear[p].pre_enq
            /\ clear[p].pc = "done" => clear[p].result = "DurableStoreFailure"

\* A Clear that failed after both deletes, rolled back, with the rows still there.
C3_Witness ==
    \E p \in ClearProcs :
        /\ clear[p].pc = "done"
        /\ clear[p].result = "DurableStoreFailure"
        /\ \E r \in clear[p].discarded : r \in gd_messages
        /\ \E r \in clear[p].discarded : r \in enq_messages

HoldsLock(p) == \E n \in LockNames : locks[n] = p

\* C4: a Clear that took the lock releases it on every way out: a Clear that
\* is past the with-block (closing the session, done, or idle again) holds no
\* lock, and a Clear holding the lock always comes to release it.
C4_LockAlwaysReleased ==
    /\ [](\A p \in ClearProcs :
            clear[p].pc \in {"closing", "done", "idle", "resolved"} => ~HoldsLock(p))
    /\ \A p \in ClearProcs : HoldsLock(p) ~> ~HoldsLock(p)

\* A failed Clear whose lock is free again.
C4_Witness ==
    \E p \in ClearProcs :
        /\ clear[p].pc = "closing"
        /\ clear[p].exc = "DurableStoreFailure"
        /\ locks[ClearLockName(clear[p].name)] = None

\* C18: Clear of a topic that has no durable message and no enqueued
\* reference does not fail for that: no exception but a failure of the store
\* arises, the commit removes nothing and leaves both counts at zero, and
\* the call returns ok.  So a Clear sent again after a Clear leaves the
\* tables as the first left them.
C18_ClearIdempotent ==
    \A p \in ClearProcs :
        (clear[p].steps # <<>> /\ clear[p].pre_messages = {} /\ clear[p].pre_enq = {}) =>
            /\ clear[p].exc \in {None, "DurableStoreFailure"}
            /\ clear[p].removed = {}
            /\ clear[p].pc = "committed" =>
                  /\ Cardinality(RowsOf(gd_messages, clear[p].cluster_id, clear[p].id)) = 0
                  /\ Cardinality(RowsOf(enq_messages, clear[p].cluster_id, clear[p].id)) = 0
            /\ (clear[p].pc = "done" /\ clear[p].exc = None) => clear[p].result = "ok"

\* A Clear sent again right after a Clear of the same topic that removed
\* rows: it found the topic empty, removed nothing and returned ok.
C18_Witness ==
    \E p \in ClearProcs :
        /\ clear[p].again
        /\ clear[p].pc = "done"
        /\ clear[p].result = "ok"
        /\ clear[p].pre_messages = {} /\ clear[p].pre_enq = {}
        /\ clear[p].removed = {}

\* The steps of a Clear that succeeds, in their order.
ClearOrder ==
    <<"lock_acquired", "messages_deleted", "enqueued_deleted", "committed", "lock_released">>

IsPrefix(s, t) == Len(s) <= Len(t) /\ \A i \in 1..Len(s) : s[i] = t[i]

\* C19: a Clear that returned ok went through lock acquired, messages
\* deleted, enqueued references deleted, commit, lock released, in this
\* order and each once; a Clear in progress without an exception has done a
\* prefix of them; in any Clear a delete or the commit comes after the lock
\* was acquired and before it was released; and after each delete and after
\* the commit the thread still holds the topic's lock.
C19_ClearStepOrder ==
    \A p \in ClearProcs :
        /\ (clear[p].pc = "done" /\ clear[p].result = "ok") => clear[p].steps = ClearOrder
        /\ clear[p].exc = None => IsPrefix(clear[p].steps, ClearOrder)
        /\ \A i \in 1..Len(clear[p].steps) :
              clear[p].steps[i] \in {"messages_deleted", "enqueued_deleted", "committed"} =>
                  /\ clear[p].steps[1] = "lock_acquired"
                  /\ \A j \in 1..i : clear[p].steps[j] # "lock_released"
        /\ clear[p].pc \in {"locked", "messages_deleted", "enqueued_deleted", "committed"} =>
              locks[ClearLockName(clear[p].name)] = p

\* A Clear that removed messages and enqueued references has returned ok,
\* its five steps done.
C19_Witness ==
    \E p \in ClearProcs :
        /\ clear[p].pc = "done"
        /\ clear[p].result = "ok"
        /\ Len(clear[p].steps) = 5
        /\ \E r \in clear[p].removed : r \in clear[p].pre_messages
        /\ \E r \in clear[p].removed : r \in clear[p].pre_enq

\* The rows of a table that are not of the topic a Clear was asked to clear:
\* rows of another topic, and rows of the same topic id in another cluster.
OtherRows(table, p) ==
    { r \in table : ~(r[1] = clear[p].cluster_id /\ r[2] = clear[p].id) }

\* C21: the rows a Clear has removed all have its cluster_id and its topic
\* id, and no step of a Clear changes, in either table, the rows that differ
\* from its request in cluster_id or in topic id.
C21_ClearOnlyMatchingRows ==
    /\ [](\A p \in ClearProcs : OtherRows(clear[p].removed, p) = {})
    /\ [][\A p \in ClearProcs :
            clear'[p] # clear[p] =>
                /\ OtherRows(gd_messages', p) = OtherRows(gd_messages, p)
                /\ OtherRows(enq_messages', p) = OtherRows(enq_messages, p)]_vars

\* A Clear of topic id 2 in cluster 1 has removed rows and returned ok, and
\* the message and the reference of topic id 2 in cluster 2 are still there.
C21_Witness ==
    \E p \in ClearProcs :
        /\ clear[p].pc = "done"
        /\ clear[p].result = "ok"
        /\ clear[p].removed # {}
        /\ \E c \in Clusters :
              /\ c # clear[p].cluster_id
              /\ RowsOf(gd_messages, c, clear[p].id) # {}
              /\ RowsOf(enq_messages, c, clear[p].id) # {}

\* The topics a Clear request names: the rows with its cluster_id and id.
Resolves(cluster_id, id) ==
    \E t \in TopicTable : t.cluster_id = cluster_id /\ t.id = id

\* C11: a Clear whose cluster_id and id name no topic fails with NotFound:
\* it never takes a lock (no step of the locked section is among its steps
\* and it holds none), it deletes nothing, in the transaction or in the
\* tables, and the caller gets NotFound.
C11_NotFoundBeforeLock ==
    \A p \in ClearProcs :
        (clear[p].pc # "idle" /\ ~Resolves(clear[p].cluster_id, clear[p].id)) =>
            /\ clear[p].exc = "NotFound"
            /\ clear[p].pc \in {"closing", "done"}
            /\ clear[p].steps = <<>>
            /\ ~HoldsLock(p)
            /\ clear[p].del_messages = {} /\ clear[p].del_enq = {}
            /\ clear[p].removed = {}
            /\ clear[p].pc = "done" => clear[p].result = "NotFound"

\* A Clear of a topic id of another cluster has failed with NotFound while
\* that id has messages and enqueued references in its own cluster, and a
\* publication holds a lock.
C11_Witness ==
    \E p \in ClearProcs :
        /\ clear[p].pc = "done"
        /\ clear[p].result = "NotFound"
        /\ \E c \in Clusters : /\ RowsOf(gd_messages, c, clear[p].id) # {}
                                /\ RowsOf(enq_messages, c, clear[p].id) # {}
        /\ \E q \in PubProcs : HoldsLock(q)

(***************************************************************************)
(* Specification of Clear beside insertions of non-GD messages in the      *)
(* backlogs of the processes.  Every topic starts with one durable message *)
(* and its enqueued reference, published before.                           *)
(***************************************************************************)
\* One subscription of each topic: the insertions beside Clear use these.
OneSubPerTopic == { s \in Subscriptions : s.sub_key \in {"sk1", "sk3"} }

InitClearBacklog ==
    /\ gd_messages = { <<t.cluster_id, t.id, 1>> : t \in TopicTable }
    /\ enq_messages = { <<t.cluster_id, t.id, 1>> : t \in TopicTable }
    /\ locks = [n \in LockNames |-> None]
    /\ clear = [p \in ClearProcs |-> ClearIdle]
    /\ pub = [q \in PubProcs |-> PubIdle]
    /\ n_pub = MaxPub
    /\ InitBacklogVars
    /\ InitDepthVars

NextClearBacklog ==
    \/ \E p \in ClearProcs, c \in Clusters, i \in TopicIds : ClearBegin(p, c, i)
    \/ \E p \in ClearProcs : ClearLockEnter(p)
    \/ \E p \in ClearProcs : ClearDeleteMessages(p)
    \/ \E p \in ClearProcs : ClearDeleteEnqueued(p)
    \/ \E p \in ClearProcs : ClearCommit(p)
    \/ \E p \in ClearProcs : ClearRaise(p)
    \/ \E p \in ClearProcs : ClearLockExit(p)
    \/ \E p \in ClearProcs : ClearSessionClose(p)
    \/ \E p \in ClearProcs : ClearReturn(p)
    \/ \E pr \in Procs, sub \in OneSubPerTopic :
          Insert(pr, sub, "m1") /\ UNCHANGED hist

SpecClearBacklog == InitClearBacklog /\ [][NextClearBacklog]_vars

\* C12: no step of Clear, in a call that succeeds or fails, changes the
\* in-RAM backlog of any process or the non-GD depth of any topic in any
\* process: they are after the step what they were before it.
C12_ClearKeepsBacklog ==
    [][(clear' # clear) =>
          /\ backlog' = backlog
          /\ \A pr \in Procs, name \in TopicNames :
                get_non_gd_topic_depth(pr, name)' = get_non_gd_topic_depth(pr, name)]_vars

\* A Clear of a topic of the local cluster has removed durable rows and
\* returned, and a process still has non-GD messages of that topic.
C12_Witness ==
    \E p \in ClearProcs :
        /\ clear[p].pc = "done"
        /\ clear[p].result = "ok"
        /\ clear[p].removed # {}
        /\ clear[p].cluster_id = LocalCluster
        /\ \E pr \in Procs : BacklogDepth(backlog[pr], clear[p].id) > 0

(***************************************************************************)
(* Specification of one collection of depths over the cluster.  The        *)
(* processes start with any backlog of "orders" up to MaxDepth messages.   *)
(***************************************************************************)
DepthCells == <<<<"sk1", "m1">>, <<"sk1", "m2">>, <<"sk2", "m1">>, <<"sk2", "m2">>>>

BacklogOfDepth(d) ==
    [t \in TopicIds |-> [k \in SubKeys |-> [m \in MsgIds |->
        IF t = 1 /\ \E i \in 1..d : DepthCells[i] = <<k, m>> THEN 1 ELSE 0]]]

InitDepth ==
    /\ InitClearVars
    /\ InitDepthVars
    /\ \E f \in [Procs -> 0..MaxDepth] :
          /\ backlog = [pr \in Procs |-> BacklogOfDepth(f[pr])]
          /\ counter = [pr \in Procs |-> [t \in TopicIds |-> IF t = 1 THEN f[pr] ELSE 0]]
    /\ n_ins = MaxInsert
    /\ ret = [p \in RetProcs |-> RetIdle]
    /\ delivered = [s \in Serials |-> 0]
    /\ hist = HistNone

NextDepth ==
    \/ \E name \in AskedNames, dir_ok \in BOOLEAN : CollectBegin(name, dir_ok)
    \/ \E sv \in Servers, server_ok \in BOOLEAN :
          \E pid_ok \in [PidsOf(sv) -> BOOLEAN] : ServerReply(sv, server_ok, pid_ok)
    \/ InvokeAllComplete
    \/ InvokeAllTimeout
    \/ CollectReduce

SpecDepth == InitDepth /\ [][NextDepth]_vars

\* The timeout of invoke_all passes whether or not servers reply, and the
\* thread running handle goes on; no server is bound to reply.
FairSpecDepth ==
    /\ SpecDepth
    /\ WF_vars(InvokeAllTimeout)
    /\ WF_vars(InvokeAllComplete)
    /\ WF_vars(CollectReduce)

(***************************************************************************)
(* Properties of the backlog retrieval.                                    *)
(***************************************************************************)
StoredSerials ==
    { backlog[Local][t][k][m] : t \in TopicIds, k \in SubKeys, m \in MsgIds } \ {0}

OutSerials(p) == { x[3] : x \in AllMessages(ret[p].out) }

\* C5: drain exclusivity: whatever the interleaving of insertions and of the
\* requests of the two threads, a stored message is returned by at most one
\* retrieval, a returned message is no longer in the backlog, and no message
\* is in the results of both threads.
C5_DrainExclusive ==
    /\ \A s \in Serials :
          /\ delivered[s] <= 1
          /\ delivered[s] >= 1 => s \notin StoredSerials
    /\ \A p \in RetProcs, q \in RetProcs :
          p # q => OutSerials(p) \cap OutSerials(q) = {}

\* Two requests in progress asked for the same sub_key: one has its message,
\* the other has nothing for it.
C5_Witness ==
    \E p \in RetProcs, q \in RetProcs :
        /\ p # q
        /\ ret[p].pc # "idle" /\ ret[q].pc # "idle"
        /\ \E k \in (DOMAIN ret[p].out) \cap (DOMAIN ret[q].out) :
              /\ MessagesOf(k, ret[p].out[k]) # {}
              /\ MessagesOf(k, ret[q].out[k]) = {}

\* C6: a request that did not fail returns every message stored under its
\* sub_keys when it began (nothing being inserted meanwhile), and the same
\* request sent again at once, with nothing inserted since the first began,
\* returns no message.
C6_RepeatIsEmpty ==
    ret[Caller].pc = "done" =>
        /\ (hist.quiet /\ ret[Caller].exc = None) =>
              AllMessages(ret[Caller].out) = hist.at_begin
        /\ (hist.again /\ hist.no_insert) => AllMessages(ret[Caller].out) = {}

\* A repeated request that returned nothing after the first returned
\* messages of two topics.
C6_Witness ==
    /\ ret[Caller].pc = "done"
    /\ hist.again /\ hist.no_insert
    /\ AllMessages(ret[Caller].out) = {}
    /\ \E x \in hist.first, y \in hist.first : x[1] = "sk2" /\ y[1] = "sk3"

(***************************************************************************)
(* Properties of the collection of depths.                                 *)
(***************************************************************************)
\* The entries of data that count: <<server, pid>> with both is_ok true.
OkEntries(data) ==
    { e \in Procs :
        /\ data[e[1]].is_ok
        /\ data[e[1]].server_data[e[2]].is_ok }

\* The sum of their counts, as the number of <<server, pid, i>> with i up to
\* the count of the entry.
SumOfOk(data) ==
    Cardinality({ x \in Procs \X (1..(MaxDepth + 1)) :
        /\ x[1] \in OkEntries(data)
        /\ x[2] <= data[x[1][1]].server_data[x[1][2]].pid_data.response.depth })

Returned == coll.pc = "done" /\ ~coll.dir_failed

DepthAt(pr) == get_non_gd_topic_depth(pr, coll.topic_name)

\* C7: the total returned is the sum of the counts of the entries whose
\* server and process both have is_ok true; the others add nothing.
C7_TotalIsSumOfOk ==
    Returned => (~coll.raised /\ coll.total = SumOfOk(coll.all_depth[2]))

\* "orders": 2 and 1 message in the processes of A, none on B; the second
\* process of A failed and the total is 2.
C7_Witness ==
    /\ Returned
    /\ coll.topic_name = "orders"
    /\ DepthAt(<<"A", 1>>) = 2 /\ DepthAt(<<"A", 2>>) = 1 /\ DepthAt(<<"B", 1>>) = 0
    /\ coll.all_depth[2]["A"].is_ok
    /\ coll.all_depth[2]["A"].server_data[1].is_ok
    /\ ~coll.all_depth[2]["A"].server_data[2].is_ok
    /\ coll.total = 2

\* What the collection returns when every server and process succeeds.
TotalIfAllSucceed == Cardinality({ x \in Procs \X (1..(MaxDepth + 1)) : x[2] <= DepthAt(x[1]) })

\* C8: whatever servers and processes failed or timed out, the total
\* returned is at most the total returned when all of them succeed.
C8_TotalAtMostAllSucceed ==
    Returned => (~coll.raised /\ coll.total <= TotalIfAllSucceed)

\* A server timed out, a process of the other failed, and the total is
\* below that of the whole cluster.
C8_Witness ==
    /\ Returned
    /\ coll.timed_out
    /\ \E sv \in Servers : /\ coll.all_depth[2][sv].is_ok
                           /\ \E pid \in PidsOf(sv) : ~coll.all_depth[2][sv].server_data[pid].is_ok
    /\ 0 < coll.total /\ coll.total < TotalIfAllSucceed

\* C9: the collection raises only when the servers could not be listed:
\* with any mix of failed servers and processes it returns a number.
C9_RaisesOnlyOnDirectoryFailure ==
    coll.pc = "done" => (coll.raised <=> coll.dir_failed)

\* Every server failed or timed out and the collection returned 0.
C9_Witness ==
    /\ Returned
    /\ ~coll.raised /\ coll.total = 0
    /\ \A sv \in Servers : ~coll.all_depth[2][sv].is_ok
    /\ TotalIfAllSucceed > 0

\* The total of the replies that were in time.
TotalInTime ==
    Cardinality({ x \in Procs \X (1..(MaxDepth + 1)) :
        /\ x[1][1] \in coll.in_time
        /\ inbox[x[1][1]].is_ok
        /\ inbox[x[1][1]].server_data[x[1][2]].is_ok
        /\ x[2] <= inbox[x[1][1]].server_data[x[1][2]].pid_data.response.depth })

\* C10: once the timeout has passed the collection comes to return, however
\* many servers never reply; the servers without a reply count as failed,
\* and the total is that of the replies that were in time, a later reply
\* adding nothing.
C10_TimeoutBoundsCollection ==
    /\ [](Returned => (~coll.raised /\ coll.total = TotalInTime))
    /\ [](coll.pc = "reducing" =>
            \A sv \in Servers \ coll.in_time : ~coll.all_depth[2][sv].is_ok)
    /\ (coll.pc \in {"invoking", "reducing"}) ~> (coll.pc = "done")

\* The collection returned after a timeout and a reply with messages came late.
C10_Witness ==
    /\ Returned
    /\ coll.timed_out
    /\ \E sv \in Servers \ coll.in_time :
          /\ inbox[sv] # NoReply
          /\ inbox[sv].is_ok
          /\ \E pid \in PidsOf(sv) : /\ inbox[sv].server_data[pid].is_ok
                                     /\ inbox[sv].server_data[pid].pid_data.response.depth > 0

\* The topics under which the backlog of a process holds messages of a sub_key.
TopicsHolding(pr, k) ==
    { t \in TopicIds : \E m \in MsgIds : backlog[pr][t][k][m] # 0 }

C22_RetrieveOnlyAskedKeys ==
    /\ [](\A p \in RetProcs : DOMAIN ret[p].out \subseteq ret[p].sub_key_list)
    /\ [][\A p \in RetProcs :
            ret'[p] # ret[p] =>
                /\ \A t \in TopicIds, k \in SubKeys \ ret[p].sub_key_list :
                      backlog'[Local][t][k] = backlog[Local][t][k]
                /\ \A pr \in Procs \ {Local} : backlog'[pr] = backlog[pr]]_vars

\* A request for "sk1" has returned its message, and the message stored
\* under "sk2", a sub_key of the same topic, is still in the backlog.
C22_Witness ==
    \E p \in RetProcs :
        /\ ret[p].pc = "done"
        /\ ret[p].sub_key_list = {"sk1"}
        /\ AllMessages(ret[p].out) # {}
        /\ StoredUnder({"sk2"}) # {}

\* C20: a request whose sub_keys all resolve does not fail when one of them
\* has no message under its topic: the result has every sub_key asked for,
\* with an empty mapping for the one without messages and, for each other,
\* the messages stored under it when the request began, and these are no
\* longer in the backlog (nothing being inserted meanwhile).
C20_AbsentKeyIsEmpty ==
    (ret[Caller].pc = "done" /\ Unresolved(LocalCluster, ret[Caller].sub_key_list) = {}) =>
        /\ ret[Caller].exc = None
        /\ hist.quiet =>
              \A k \in ret[Caller].sub_key_list :
                  /\ k \in DOMAIN ret[Caller].out
                  /\ MessagesOf(k, ret[Caller].out[k]) = { x \in hist.at_begin : x[1] = k }
                  /\ StoredUnder({k}) = {}

\* A request for "sk1" and "sk2", sub_keys of one topic: one had nothing and
\* has an empty mapping in the result, the other's messages were returned.
C20_Witness ==
    /\ ret[Caller].pc = "done"
    /\ hist.quiet
    /\ ret[Caller].sub_key_list = {"sk1", "sk2"}
    /\ \E k1 \in {"sk1", "sk2"}, k2 \in {"sk1", "sk2"} :
          /\ MessagesOf(k1, ret[Caller].out[k1]) = {}
          /\ MessagesOf(k2, ret[Caller].out[k2]) # {}
          /\ { x \in hist.at_begin : x[1] = k2 } # {}

NoBacklogFor(pr, topic_name) ==
    \A t \in TopicTable :
        (t.cluster_id = LocalCluster /\ t.name = topic_name) =>
            \A k \in SubKeys, m \in MsgIds : backlog[pr][t.id][k][m] = 0

\* C14: the response of GetNonGDDepth in a process always carries a depth,
\* and the depth is 0 when the process holds no backlog for the topic name
\* asked, the name of no topic included: it is a number, not an error.
C14_ZeroForNoBacklog ==
    \A sv \in Servers :
        (inbox[sv] # NoReply /\ inbox[sv].is_ok) =>
            \A pid \in PidsOf(sv) :
                inbox[sv].server_data[pid].is_ok =>
                    LET response == inbox[sv].server_data[pid].pid_data.response IN
                    /\ HasKey(response, "depth")
                    /\ NoBacklogFor(<<sv, pid>>, coll.topic_name) => response.depth = 0

\* A process that holds messages of "orders" was asked for "nosuch", a name
\* it knows no topic of, and answered 0.
C14_Witness ==
    \E sv \in Servers : \E pid \in PidsOf(sv) :
        /\ inbox[sv] # NoReply
        /\ inbox[sv].is_ok
        /\ inbox[sv].server_data[pid].is_ok
        /\ inbox[sv].server_data[pid].pid_data.response.depth = 0
        /\ coll.topic_name = "nosuch"
        /\ BacklogDepth(backlog[<<sv, pid>>], 1) > 0

(***************************************************************************)
(* Specification of one collection of depths beside one call of Clear and  *)
(* one publisher.  "orders" has 2 and 1 messages in the processes of A and *)
(* none on B; every server is healthy and replies once it gets to run; the *)
(* publisher publishes to "orders", once.                                  *)
(* Clear and the publisher are under no fairness: either may stay inside   *)
(* its locked section for as long as it likes.                             *)
(***************************************************************************)
Publisher == "p1"

ScenarioDepth(pr) == IF pr = <<"A", 1>> THEN 2 ELSE IF pr = <<"A", 2>> THEN 1 ELSE 0

\* The topics of the local cluster whose depth is asked for.
AskedTopics == { t \in TopicTable : t.cluster_id = LocalCluster /\ t.name \in AskedNames }

AllOk(sv) == [pid \in PidsOf(sv) |-> TRUE]

InitClearDepth ==
    /\ gd_messages = {}
    /\ enq_messages = {}
    /\ locks = [n \in LockNames |-> None]
    /\ clear = [p \in ClearProcs |-> ClearIdle]
    /\ pub = [q \in PubProcs |-> PubIdle]
    /\ n_pub = MaxPub - 1
    /\ InitDepthVars
    /\ backlog = [pr \in Procs |-> BacklogOfDepth(ScenarioDepth(pr))]
    /\ counter = [pr \in Procs |-> [t \in TopicIds |-> IF t = 1 THEN ScenarioDepth(pr) ELSE 0]]
    /\ n_ins = MaxInsert
    /\ ret = [p \in RetProcs |-> RetIdle]
    /\ delivered = [s \in Serials |-> 0]
    /\ hist = HistNone

NextClearDepth ==
    \/ \E p \in ClearProcs, c \in Clusters, i \in TopicIds : ClearBegin(p, c, i)
    \/ \E p \in ClearProcs : ClearLockEnter(p)
    \/ \E p \in ClearProcs : ClearDeleteMessages(p)
    \/ \E p \in ClearProcs : ClearDeleteEnqueued(p)
    \/ \E p \in ClearProcs : ClearCommit(p)
    \/ \E p \in ClearProcs : ClearRaise(p)
    \/ \E p \in ClearProcs : ClearLockExit(p)
    \/ \E p \in ClearProcs : ClearSessionClose(p)
    \/ \E t \in AskedTopics : PublishBegin(Publisher, t)
    \/ PublishLockEnter(Publisher)
    \/ PublishStore(Publisher)
    \/ PublishLockExit(Publisher)
    \/ \E name \in AskedNames : CollectBegin(name, TRUE)
    \/ \E sv \in Servers : ServerReply(sv, TRUE, AllOk(sv))
    \/ InvokeAllComplete
    \/ InvokeAllTimeout
    \/ CollectReduce

SpecClearDepth == InitClearDepth /\ [][NextClearDepth]_vars

FairSpecClearDepth ==
    /\ SpecClearDepth
    /\ \A sv \in Servers : WF_vars(ServerReply(sv, TRUE, AllOk(sv)))
    /\ WF_vars(InvokeAllComplete)
    /\ WF_vars(InvokeAllTimeout)
    /\ WF_vars(CollectReduce)

\* C13: the depth queries do not wait for the topic's clear/publish lock:
\* whoever holds it, and for however long, a collection for the topic can
\* start, every server asked can answer with the depths of its processes,
\* every server asked does answer, and the collection returns.
C13_DepthNeverBlocksOnLock ==
    /\ [](coll.pc = "idle" => \A name \in AskedNames : ENABLED CollectBegin(name, TRUE))
    /\ [](\A sv \in Servers : srv[sv] = "asked" => ENABLED ServerReply(sv, TRUE, AllOk(sv)))
    /\ \A sv \in Servers : (srv[sv] = "asked") ~> (srv[sv] = "idle")
    /\ (coll.pc \in {"invoking", "reducing"}) ~> (coll.pc = "done")

\* The collection for "orders" began while Clear held the lock of "orders"
\* and has returned 3, all servers having replied, with Clear (which runs
\* once) still holding the lock.
C13_Witness ==
    \E p \in ClearProcs :
        /\ Returned
        /\ ~coll.timed_out
        /\ coll.topic_name = "orders"
        /\ coll.total = 3
        /\ coll.lock_at_begin = p
        /\ ClearInLock(p)
        /\ locks[PublishLockName(coll.topic_name)] = p


(***************************************************************************)
(* Two collections of depth, one after the other, beside insertions.       *)
(***************************************************************************)
\* The same request again after the first has returned: a new invoke_all,
\* whose replies are awaited afresh.  prev_total and prev_ok keep what the
\* first returned and which entries counted in it; n_ins_at_begin stays that
\* of the first.
CollectAgain ==
    /\ Returned
    /\ ~coll.again
    /\ coll' = [CollIdle EXCEPT !.pc = "invoking", !.topic_name = coll.topic_name,
                    !.lock_at_begin = LockHolder(PublishLockName(coll.topic_name)),
                    !.n_ins_at_begin = coll.n_ins_at_begin,
                    !.again = TRUE,
                    !.prev_total = coll.total,
                    !.prev_ok = OkEntries(coll.all_depth[2])]
    /\ srv' = [sv \in Servers |-> "asked"]
    /\ inbox' = [sv \in Servers |-> NoReply]
    /\ UNCHANGED <<clearVars, backlogVars>>

\* The subscription the insertions are made for: a key of "orders" with a
\* free cell in every process.
DepthInsertSub == CHOOSE s \in Subscriptions : s.sub_key = "sk2"

InitDepthTwice ==
    /\ gd_messages = { <<t.cluster_id, t.id, 1>> : t \in TopicTable }
    /\ enq_messages = { <<t.cluster_id, t.id, 1>> : t \in TopicTable }
    /\ locks = [n \in LockNames |-> None]
    /\ clear = [p \in ClearProcs |-> ClearIdle]
    /\ pub = [q \in PubProcs |-> PubIdle]
    /\ n_pub = MaxPub
    /\ InitDepthVars
    /\ backlog = [pr \in Procs |-> BacklogOfDepth(ScenarioDepth(pr))]
    /\ counter = [pr \in Procs |-> [t \in TopicIds |-> IF t = 1 THEN ScenarioDepth(pr) ELSE 0]]
    /\ n_ins = 0
    /\ ret = [p \in RetProcs |-> RetIdle]
    /\ delivered = [s \in Serials |-> 0]
    /\ hist = HistNone

NextDepthTwice ==
    \/ \E pr \in Procs : Insert(pr, DepthInsertSub, "m2") /\ UNCHANGED hist
    \/ \E name \in AskedNames : CollectBegin(name, TRUE)
    \/ \E sv \in Servers, server_ok \in BOOLEAN :
          \E pid_ok \in [PidsOf(sv) -> BOOLEAN] : ServerReply(sv, server_ok, pid_ok)
    \/ InvokeAllComplete
    \/ InvokeAllTimeout
    \/ CollectReduce
    \/ CollectAgain

SpecDepthTwice == InitDepthTwice /\ [][NextDepthTwice]_vars

\* C23: depth queries are read-only.  No step of a depth query (the call,
\* a server's reply with the depth of its processes, the return of
\* invoke_all, the summing) changes the backlog or the counter of any process
\* or any durable row; and a second collection returns the total of the
\* first when no message was inserted since the first began and the same
\* entries counted in both.
C23_DepthQueriesReadOnly ==
    /\ [][(coll' # coll \/ srv' # srv \/ inbox' # inbox) =>
              /\ backlog' = backlog
              /\ counter' = counter
              /\ gd_messages' = gd_messages
              /\ enq_messages' = enq_messages]_vars
    /\ []((/\ Returned
           /\ coll.again
           /\ n_ins = coll.n_ins_at_begin
           /\ OkEntries(coll.all_depth[2]) = coll.prev_ok)
              => coll.total = coll.prev_total)

\* A message was inserted, then "orders" was collected twice with no
\* insertion in between and a failed entry both times: both totals are the
\* same positive number, and the rows and backlogs are still there.
C23_Witness ==
    /\ Returned
    /\ coll.again
    /\ coll.topic_name = "orders"
    /\ n_ins > 0
    /\ n_ins = coll.n_ins_at_begin
    /\ OkEntries(coll.all_depth[2]) = coll.prev_ok
    /\ coll.prev_ok # Procs
    /\ coll.total = coll.prev_total
    /\ coll.total > 0
    /\ gd_messages # {}
    /\ \E pr \in Procs : backlog[pr] # EmptyBacklog

=============================================================================
